---- MODULE Spec2Model ----
(***************************************************************************)
(* Model of the ingest job queue (services/ingest_queue_service.py), the   *)
(* ingest worker loop (workers/ingest_worker.py) and the LLM retry         *)
(* executor (services/llm_processing_service.py).                          *)
(*                                                                         *)
(* The job table is a sequence of rows; a job's id is its index.  Every    *)
(* database transaction of the code is one step.  The two places where the *)
(* code reads rows in one statement and writes them in a later one (the    *)
(* stale-lease sweep and the candidate scan of claim_next_job, and the     *)
(* lookup/insert of enqueue_document) are split into a read step and a     *)
(* write step, so that other processes may run in between.                 *)
(***************************************************************************)
EXTENDS Integers, Sequences, FiniteSets, TLC

\* ---------------------------------------------------------------- bounds
Docs == {"D1", "D2"}
StoredDocs == {"D1"}
Workers == {"w1", "w2"}
Producers == {"p1", "p2"}
TickStep == 40
MaxTime == 40
MaxCount == 6
MaxAttemptsStored == 3
MaxCalls == 3
MaxRetries == 3

\* ------------------------------------------------------ program constants
MinAttempts == 1
MinLockTimeout == 30
ScanWindow == 20
ErrLimit == 4000

NULL == "NULL"
NoTime == -1
NoJob == 0
Expired == -2

\* A string is modelled by its text and its length, so that slicing to a
\* prefix changes the length and keeps the text's identity.
Str(t, n) == [text |-> t, len |-> n]
NoMsg == [text |-> NULL, len |-> -1]
ErrEmbed == Str("embed timeout", 13)
ErrEmpty == Str("", 0)
ErrLong == Str("long error", ErrLimit + 1)
ErrInputs == {ErrEmbed}
ErrTexts == {ErrEmbed, ErrEmpty, ErrLong}
MsgUnknown == Str("unknown ingest error", 20)
MsgWorkerTimeout == Str("ingest worker timeout", 21)
MsgTimedOut == Str("job timed out in previous worker", 32)
MsgDocNotFound == Str("document not found", 18)

Min(a, b) == IF a < b THEN a ELSE b
Max(a, b) == IF a > b THEN a ELSE b

\* Mutant of Slice: nothing is cut.
SliceNothing(s, n) == s

\* error_msg[:n]
Slice(s, n) == [s EXCEPT !.len = Min(s.len, n)]

\* (error_msg or "unknown ingest error")[:4000]
safe_error(error_msg) ==
    Slice(IF error_msg = NoMsg \/ error_msg.len = 0 THEN MsgUnknown ELSE error_msg,
          ErrLimit)

\* ------------------------------------------------------------- settings
MaxAttemptsSettings == {0, 2}
LockTimeoutSettings == {10}
ModeInputs == {NULL, "bulk"}
ModeTexts == {NULL, "", "bulk", "Queue", " Immediate "}
DefaultModes == {NULL, "immediate", "bulk"}

VARIABLES
    now,          \* datetime.utcnow()
    settings,     \* core.config.settings, as read by IngestQueueService.__init__
    documents,    \* documents table: status per document id ("absent": no row)
    jobs,         \* document_ingest_jobs table
    pc,           \* where each worker is in process_next_job
    stale,        \* the rows a worker's sweep has loaded
    cand,         \* the candidates a worker's scan has loaded, in order
    snap,         \* attempts of the worker's row as its session loaded it
    tried,        \* the candidate of the worker's last conditional update
    updated,      \* rows affected by the worker's last conditional update
    held,         \* the job a worker claimed and has not reported
    pending,      \* a producer between the lookup and the insert of enqueue
    apiResult,    \* outcome of the producer call made by the last step
    calls,        \* producer calls made so far
    observed,     \* whether the outcome of producer calls is recorded
    active,       \* the worker processes that are running
    llm,          \* a call of run_with_retry: its arguments, locals and result
    stopping,     \* IngestWorker._stopping of each worker
    stopAt,       \* history: where the worker was when its flag was set
    lease,        \* history: state of each worker's claim
    run           \* history: claims and failures of a job since its creation,
                  \* and its claims since the last enqueue or retry

vars == <<now, settings, documents, jobs, pc, stale, cand, snap, tried, updated, held,
          pending, apiResult, calls, observed, active, llm, stopping, stopAt, lease, run>>

\* IngestQueueService.__init__
max_attempts == Max(MinAttempts, settings.ingest_job_max_attempts)
lock_timeout_seconds == Max(MinLockTimeout, settings.ingest_job_lock_timeout_seconds)

\* ------------------------------------------------------------ the tables
JobIds == 1..Len(jobs)

\* db.query(DocumentIngestJob).filter(document_id == d).first()
get_job_for_document(d) ==
    IF \E i \in JobIds : jobs[i].document_id = d
    THEN CHOOSE i \in JobIds :
            /\ jobs[i].document_id = d
            /\ \A k \in JobIds : jobs[k].document_id = d => i <= k
    ELSE NoJob

\* Rows of the job table that belong to document d.
JobRows(d) == {i \in JobIds : jobs[i].document_id = d}

\* Mutant of UniqueViolated: the column has no unique index.
NoUniqueIndex(d) == FALSE

\* unique=True on document_ingest_jobs.document_id
UniqueViolated(d) == JobRows(d) /= {}

\* DocumentIngestJob(document_id, status="queued", attempts=0, ...) and the
\* column defaults
NewJob(d, mode) ==
    [document_id |-> d, status |-> "queued", attempts |-> 0,
     max_attempts |-> max_attempts, error_msg |-> NoMsg, worker_id |-> NULL,
     processing_mode |-> mode, created_at |-> now, started_at |-> NoTime,
     finished_at |-> NoTime]

\* document = db.query(Document)...first(); if document: document.status = s
SetDocStatus(docs, d, s) ==
    IF docs[d] = "absent" THEN docs ELSE [docs EXCEPT ![d] = s]

\* (processing_mode or settings.ingest_default_mode or "queue").strip().lower()
StripLower(m) ==
    CASE m = " Immediate " -> "immediate"
      [] m = "Queue" -> "queue"
      [] OTHER -> m

\* x or y: None and the empty string are false.
Or(x, y) == IF x /= NULL /\ x /= "" THEN x ELSE y

normalize_mode(m) == StripLower(Or(m, Or(settings.ingest_default_mode, "queue")))

\* Mutant of ValidMode: any mode is taken.
ValidModeAlways(m) == TRUE

ValidMode(m) == normalize_mode(m) \in {"queue", "immediate"}

\* ---------------------------------------------------------- history
\* A claim that is held and valid is displaced when another step moves the
\* job's row out of the state the claim left it in.
Displaced(ls, j, actor) ==
    [w \in Workers |->
        IF w /= actor /\ held[w] = j /\ ls[w] = "valid" THEN "revoked" ELSE ls[w]]

NoRun == [pure |-> FALSE, claims |-> 0, fails |-> 0, since |-> 0]
FreshRun == [pure |-> TRUE, claims |-> 0, fails |-> 0, since |-> 0]
\* A step that is neither a claim nor a reset of the job: the claims since
\* the last enqueue or retry are kept.
Spoiled(r) == [NoRun EXCEPT !.since = r.since]
Bump(n) == Min(n + 1, MaxCount)
\* The claims since the last reset are counted up to MaxAttemptsStored.
BumpSince(n) == Min(n + 1, MaxAttemptsStored)

NotPending == [doc |-> NULL, mode |-> NULL]

NoResult == [op |-> "none", doc |-> NULL, result |-> "none"]
Result(op, d, r) ==
    IF observed THEN [op |-> op, doc |-> d, result |-> r] ELSE NoResult

workerVars == <<pc, stale, cand, snap, tried, updated, held>>

\* The model follows the producers for MaxCalls calls.
Called == calls < MaxCalls /\ calls' = calls + 1
fixedVars == <<settings, observed, active, llm, stopping, stopAt>>
quietVars == <<settings, observed, active, llm, stopping, stopAt, calls>>

\* ------------------------------------------------------ run_with_retry
\* A response text is known by the attempt and the transport that produced
\* it; a parsed result by the text it was parsed from.
NoText == [attempt |-> 0, via |-> "none"]
NoParsed == [of |-> NoText, null |-> TRUE]
\* Mutant of Parsed: the value does not tell its text.
ParsedOfNoText(text) == [of |-> NoText, null |-> FALSE]
Parsed(text) == [of |-> text, null |-> FALSE]
MsgInvalid == Str("validation failed", 17)
MsgReason == Str("reason", 6)
MsgParse == Str("parse error: exc", 16)
MsgValidate == Str("parse error: validate exc", 25)

NoWorkflowResult ==
    [success |-> FALSE, parsed_result |-> NoParsed, response_text |-> NoText,
     attempts |-> -1, retry_count |-> -1, last_error |-> NoMsg]

\* The arguments and the locals of run_with_retry at entry (lines 98-103);
\* accept_at is the first attempt on which validate_fn accepts, and
\* parse_calls counts the calls of parse_fn in the current attempt,
\* fallback_calls those of the provider called directly, and primary_failed
\* tells whether the runnable raised in the current attempt.
LlmCall(max_retries, accept_at) ==
    [pc |-> "loop", max_retries |-> max_retries, accept_at |-> accept_at,
     attempts |-> 0, last_error |-> NoMsg, last_response_text |-> NoText,
     last_parsed_result |-> NoParsed, response_text |-> NoText,
     parse_raised |-> FALSE, parse_calls |-> 0, fallback_calls |-> 0,
     primary_failed |-> FALSE, result |-> NoWorkflowResult]

LlmOff == [LlmCall(0, 1) EXCEPT !.pc = "off"]

\* Mutant of LoopContinues: one attempt more than the budget.
LoopContinuesInclusive(attempts, max_retries) == attempts <= max_retries

\* while attempts < max_retries (line 105)
LoopContinues(attempts, max_retries) == attempts < max_retries

\* Mutant of FailureResult: the result carries no parsed value.
FailureResultDropsParsed(l) ==
    [success |-> FALSE, parsed_result |-> NoParsed,
     response_text |-> l.last_response_text, attempts |-> l.attempts,
     retry_count |-> Max(0, l.attempts - 1), last_error |-> l.last_error]

\* The result returned when the loop ends (lines 151-160).
FailureResult(l) ==
    [success |-> FALSE, parsed_result |-> l.last_parsed_result,
     response_text |-> l.last_response_text, attempts |-> l.attempts,
     retry_count |-> Max(0, l.attempts - 1), last_error |-> l.last_error]

\* Mutant of SuccessResult: the first attempt counts as a retry.
SuccessResultCountsRetries(l, parsed) ==
    [success |-> TRUE, parsed_result |-> parsed, response_text |-> l.response_text,
     attempts |-> l.attempts, retry_count |-> l.attempts, last_error |-> NoMsg]

\* The result returned from inside the loop (lines 128-137).
SuccessResult(l, parsed) ==
    [success |-> TRUE, parsed_result |-> parsed, response_text |-> l.response_text,
     attempts |-> l.attempts, retry_count |-> l.attempts - 1, last_error |-> NoMsg]

queueVars == <<now, settings, documents, jobs, pc, stale, cand, snap, tried,
               updated, held, pending, apiResult, calls, observed, active,
               stopping, stopAt, lease, run>>

\* The head of the loop: the next attempt starts, or the loop ends and the
\* failure result is returned (lines 105-106, 150-160).
llm_loop ==
    /\ llm.pc = "loop"
    /\ llm' = IF LoopContinues(llm.attempts, llm.max_retries)
              THEN [llm EXCEPT !.attempts = @ + 1, !.pc = "primary", !.parse_calls = 0,
                               !.fallback_calls = 0, !.primary_failed = FALSE]
              ELSE [llm EXCEPT !.pc = "done", !.result = FailureResult(llm)]
    /\ UNCHANGED queueVars

\* Mutant of AfterPrimaryFails: the exception of the runnable leaves
\* generate_text.
AfterPrimaryFailsRaises == "raised"

\* except Exception as first_exc (lines 71-73): the provider is called
\* directly.
AfterPrimaryFails == "fallback"

\* generate_text: the runnable yields text (lines 64-70) or raises (line 71).
llm_primary(ok) ==
    /\ llm.pc = "primary"
    /\ llm' = IF ok
              THEN [llm EXCEPT !.pc = "parse",
                      !.response_text = [attempt |-> llm.attempts, via |-> "primary"],
                      !.last_response_text = [attempt |-> llm.attempts, via |-> "primary"]]
              ELSE [llm EXCEPT !.pc = AfterPrimaryFails, !.primary_failed = TRUE]
    /\ UNCHANGED queueVars

\* Mutant of AfterBothFail: the failure of both transports is one more
\* failed attempt.
AfterBothFailRetries == "loop"

\* generate_text raises when the fallback fails too (lines 80-86) and
\* run_with_retry has no handler around the call (lines 107-113): the
\* exception leaves run_with_retry.
AfterBothFail == "raised"

\* Mutant of AfterParseError: the exception of parse_fn leaves run_with_retry.
AfterParseErrorRaises == "raised"

\* except Exception around parse_fn and validate_fn (lines 141-145): the loop
\* goes on.
AfterParseError == "loop"

\* generate_text: the provider called directly yields text (lines 73-79) or
\* raises.
llm_fallback(ok) ==
    /\ llm.pc = "fallback"
    /\ llm' = IF ok
              THEN [llm EXCEPT !.pc = "parse", !.fallback_calls = @ + 1,
                      !.response_text = [attempt |-> llm.attempts, via |-> "fallback"],
                      !.last_response_text = [attempt |-> llm.attempts, via |-> "fallback"]]
              ELSE [llm EXCEPT !.pc = AfterBothFail, !.fallback_calls = @ + 1]
    /\ UNCHANGED queueVars

\* parse_fn raises (lines 141-145).
llm_parse_raises ==
    /\ llm.pc = "parse"
    /\ llm' = [llm EXCEPT !.pc = AfterParseError, !.last_error = MsgParse,
                          !.parse_raised = TRUE, !.parse_calls = @ + 1]
    /\ UNCHANGED queueVars

\* parse_fn returns and validate_fn raises (lines 119-121, 141-145).
llm_validate_raises ==
    /\ llm.pc = "parse"
    /\ llm' = [llm EXCEPT !.pc = AfterParseError, !.last_error = MsgValidate,
                          !.last_parsed_result = Parsed(llm.response_text),
                          !.parse_raised = TRUE, !.parse_calls = @ + 1]
    /\ UNCHANGED queueVars

\* parse_fn returns and validate_fn gives its verdict, with or without a
\* reason (lines 119-140).
llm_validate(reason) ==
    /\ llm.pc = "parse"
    /\ LET parsed == Parsed(llm.response_text)
           l == [llm EXCEPT !.last_parsed_result = parsed, !.parse_calls = @ + 1] IN
       llm' = IF llm.attempts >= llm.accept_at
              THEN [l EXCEPT !.pc = "done", !.result = SuccessResult(l, parsed)]
              ELSE [l EXCEPT !.pc = "loop",
                             !.last_error = IF reason = NoMsg \/ reason.len = 0
                                            THEN MsgInvalid ELSE reason]
    /\ UNCHANGED queueVars

\* ------------------------------------------------------------------ Init
\* The tables are empty but for the stored documents; the settings are
\* drawn from the given sets.
InitWith(attempts, timeouts, modes) ==
    /\ now = 0
    /\ settings \in [ingest_job_max_attempts : attempts,
                     ingest_job_lock_timeout_seconds : timeouts,
                     ingest_default_mode : modes]
    /\ documents = [d \in Docs |-> IF d \in StoredDocs THEN "processing" ELSE "absent"]
    /\ jobs = <<>>
    /\ pc = [w \in Workers |-> "idle"]
    /\ stale = [w \in Workers |-> {}]
    /\ cand = [w \in Workers |-> <<>>]
    /\ snap = [w \in Workers |-> NoTime]
    /\ tried = [w \in Workers |-> NoJob]
    /\ updated = [w \in Workers |-> 0]
    /\ held = [w \in Workers |-> NoJob]
    /\ pending = [p \in Producers |-> NotPending]
    /\ apiResult = NoResult
    /\ calls = 0
    /\ stopping = [w \in Workers |-> FALSE]
    /\ stopAt = [w \in Workers |-> "none"]
    /\ lease = [w \in Workers |-> "none"]
    /\ run = <<>>

InitTables == InitWith(MaxAttemptsSettings, LockTimeoutSettings, {NULL})

Init == InitTables /\ observed = FALSE /\ active = Workers /\ llm = LlmOff

\* --------------------------------------------------------------- enqueue
\* Mutant of ResetForEnqueue: the lease of the row is left as it is.
ResetForEnqueueKeepsLease(job, mode) ==
    [job EXCEPT !.status = "queued", !.error_msg = NoMsg,
                !.processing_mode = mode, !.finished_at = NoTime,
                !.max_attempts = max_attempts]

\* enqueue_document, existing job: the row is reset in place.
ResetForEnqueue(job, mode) ==
    [job EXCEPT !.status = "queued", !.error_msg = NoMsg,
                !.processing_mode = mode, !.worker_id = NULL,
                !.finished_at = NoTime, !.started_at = NoTime,
                !.max_attempts = max_attempts]

\* enqueue_document when the job exists (lines 43-49, 60-65).
EnqueueExisting(d, j, mode) ==
    /\ jobs' = [jobs EXCEPT ![j] = ResetForEnqueue(jobs[j], mode)]
    /\ documents' = SetDocStatus(documents, d, "queued")
    /\ lease' = Displaced(lease, j, NULL)
    /\ run' = [run EXCEPT ![j] = NoRun]
    /\ apiResult' = Result("enqueue", d, "ok")

\* enqueue_document from db.add(job) to db.flush() (lines 51-65): the insert
\* fails on the unique index when a row of the document exists by then.
EnqueueInsert(d, mode) ==
    IF UniqueViolated(d)
    THEN /\ apiResult' = Result("enqueue", d, "integrity_error")
         /\ UNCHANGED <<jobs, documents, run>>
    ELSE /\ jobs' = Append(jobs, NewJob(d, mode))
         /\ run' = Append(run, FreshRun)
         /\ documents' = SetDocStatus(documents, d, "queued")
         /\ apiResult' = Result("enqueue", d, "ok")

\* enqueue_document(db, d, m) with no other producer call in between: an
\* invalid mode raises before anything is read.
enqueue_document(d, m) ==
    /\ Called
    /\ IF ~ValidMode(m)
       THEN /\ apiResult' = Result("enqueue", d, "invalid_mode")
            /\ UNCHANGED <<jobs, documents, lease, run>>
       ELSE LET j == get_job_for_document(d) IN
            IF j /= NoJob
            THEN EnqueueExisting(d, j, normalize_mode(m))
            ELSE EnqueueInsert(d, normalize_mode(m)) /\ UNCHANGED lease
    /\ UNCHANGED <<now, fixedVars, workerVars, pending>>

\* enqueue_document by producer p up to the lookup of the job (lines 40-42):
\* an existing job is reset at once, a missing job leaves p about to insert.
enqueue_lookup(p, d, m) ==
    /\ pending[p] = NotPending
    /\ Called
    /\ IF ~ValidMode(m)
       THEN /\ apiResult' = Result("enqueue", d, "invalid_mode")
            /\ UNCHANGED <<jobs, documents, pending, lease, run>>
       ELSE LET j == get_job_for_document(d) IN
            IF j /= NoJob
            THEN EnqueueExisting(d, j, normalize_mode(m)) /\ UNCHANGED pending
            ELSE /\ pending' = [pending EXCEPT ![p] = [doc |-> d, mode |-> normalize_mode(m)]]
                 /\ apiResult' = NoResult
                 /\ UNCHANGED <<jobs, documents, lease, run>>
    /\ UNCHANGED <<now, fixedVars, workerVars>>

\* enqueue_document by producer p, the rest of the call.
enqueue_insert(p) ==
    /\ pending[p] /= NotPending
    /\ UNCHANGED calls
    /\ EnqueueInsert(pending[p].doc, pending[p].mode)
    /\ pending' = [pending EXCEPT ![p] = NotPending]
    /\ UNCHANGED <<now, fixedVars, workerVars, lease>>

\* ----------------------------------------------------------------- retry
\* Mutant of Retryable: only a 'processing' job is refused.
RetryableUnlessProcessing(job) == job.status /= "processing"

\* The statuses retry_document_job accepts (line 232).
Retryable(job) == job.status \in {"failed", "completed"}

\* Mutant of RetryRow: attempts is not reset.
RetryRowKeepsAttempts(job) ==
    [job EXCEPT !.status = "queued", !.error_msg = NoMsg, !.worker_id = NULL,
                !.started_at = NoTime, !.finished_at = NoTime,
                !.max_attempts = max_attempts]

\* The row after retry_document_job (lines 235-241).
RetryRow(job) ==
    [job EXCEPT !.status = "queued", !.error_msg = NoMsg, !.worker_id = NULL,
                !.started_at = NoTime, !.finished_at = NoTime, !.attempts = 0,
                !.max_attempts = max_attempts]

\* Mutant of RetryNotFound: a retry of a document without a job enqueues it.
RetryCreatesJob(d) ==
    /\ jobs' = Append(jobs, NewJob(d, "queue"))
    /\ run' = Append(run, FreshRun)
    /\ documents' = SetDocStatus(documents, d, "queued")
    /\ apiResult' = Result("retry", d, "ok")
    /\ UNCHANGED lease

\* retry_document_job when the document has no job: ValueError("document
\* ingest job not found") (lines 228-230).
RetryNotFound(d) ==
    /\ apiResult' = Result("retry", d, "not_found")
    /\ UNCHANGED <<jobs, documents, lease, run>>

retry_document_job(d) ==
    LET j == get_job_for_document(d) IN
    /\ Called
    /\ IF j = NoJob
       THEN RetryNotFound(d)
       ELSE IF ~Retryable(jobs[j])
       THEN /\ apiResult' = Result("retry", d, "invalid_state")
            /\ UNCHANGED <<jobs, documents, lease, run>>
       ELSE /\ jobs' = [jobs EXCEPT ![j] = RetryRow(jobs[j])]
            /\ documents' = SetDocStatus(documents, d, "queued")
            /\ lease' = Displaced(lease, j, NULL)
            /\ run' = [run EXCEPT ![j] = NoRun]
            /\ apiResult' = Result("retry", d, "ok")
    /\ UNCHANGED <<now, fixedVars, workerVars, pending>>

\* ---------------------------------------------------------------- sweep
\* Mutant of IsStale: the sweep finds no job.
IsStaleNever(job) == FALSE

\* The filter of _requeue_stale_processing_jobs (lines 89-98).
IsStale(job) ==
    /\ job.status = "processing"
    /\ job.started_at /= NoTime
    /\ job.started_at < now - lock_timeout_seconds

Loaded(i) == [id |-> i, attempts |-> jobs[i].attempts, max_attempts |-> jobs[i].max_attempts]

\* Mutant of SweepRow: the sweep counts an attempt.
SweepRowCountsAttempt(job, ld) ==
    IF ld.attempts >= ld.max_attempts
    THEN [job EXCEPT !.status = "failed", !.error_msg = MsgWorkerTimeout,
                     !.finished_at = now, !.attempts = @ + 1]
    ELSE [job EXCEPT !.status = "queued", !.worker_id = NULL,
                     !.started_at = NoTime, !.error_msg = MsgTimedOut,
                     !.attempts = @ + 1]

\* Mutant of SweepRow: the requeue branch keeps worker_id.
SweepRowKeepsLease(job, ld) ==
    IF ld.attempts >= ld.max_attempts
    THEN [job EXCEPT !.status = "failed", !.error_msg = MsgWorkerTimeout,
                     !.finished_at = now]
    ELSE [job EXCEPT !.status = "queued", !.started_at = NoTime,
                     !.error_msg = MsgTimedOut]

\* What the sweep's loop assigns to a loaded row (lines 101-113); the flush
\* writes these columns to the row with that id, whatever its state by then.
SweepRow(job, ld) ==
    IF ld.attempts >= ld.max_attempts
    THEN [job EXCEPT !.status = "failed", !.error_msg = MsgWorkerTimeout,
                     !.finished_at = now]
    ELSE [job EXCEPT !.status = "queued", !.worker_id = NULL,
                     !.started_at = NoTime, !.error_msg = MsgTimedOut]

\* Mutant of SweepDocStatus: the document of a job the sweep fails is
\* requeued.
SweepDocStatusQueued(ld) == "queued"

\* _requeue_stale_processing_jobs: the status given to the document of a
\* stale job (lines 105-107, 114-116).
SweepDocStatus(ld) == IF ld.attempts >= ld.max_attempts THEN "failed" ELSE "queued"

LoadedIds(w) == {ld.id : ld \in stale[w]}
LoadedOf(w, i) == CHOOSE ld \in stale[w] : ld.id = i

\* Mutant of LoopTest: the loop does not look at the flag.
LoopTestIgnoresFlag(w) == TRUE

\* while not self._stopping (ingest_worker.py line 27)
LoopTest(w) == ~stopping[w]

\* The worker passes the test of its loop and calls process_next_job;
\* claim_next_job runs the query of the sweep and loads the stale rows.
sweep_read(w) ==
    /\ pc[w] = "idle"
    /\ LoopTest(w)
    /\ LET found == {Loaded(i) : i \in {k \in JobIds : IsStale(jobs[k])}} IN
       /\ stale' = [stale EXCEPT ![w] = found]
       /\ pc' = [pc EXCEPT ![w] = IF found = {} THEN "scan" ELSE "sweep"]
    /\ apiResult' = NoResult
    /\ UNCHANGED <<now, quietVars, documents, jobs, cand, snap, tried, updated, held,
                   pending, lease, run>>

\* claim_next_job, the loop and the commit of the sweep (lines 99-119).
sweep_write(w) ==
    /\ pc[w] = "sweep"
    /\ jobs' = [i \in JobIds |->
                  IF i \in LoadedIds(w) THEN SweepRow(jobs[i], LoadedOf(w, i))
                  ELSE jobs[i]]
    /\ documents' = [d \in Docs |->
                  IF documents[d] /= "absent"
                     /\ \E i \in LoadedIds(w) : jobs[i].document_id = d
                  THEN SweepDocStatus(LoadedOf(w,
                          CHOOSE i \in LoadedIds(w) : jobs[i].document_id = d))
                  ELSE documents[d]]
    /\ lease' = [x \in Workers |->
                  IF x /= w /\ held[x] \in LoadedIds(w) /\ lease[x] = "valid"
                  THEN "revoked" ELSE lease[x]]
    /\ run' = [i \in JobIds |-> IF i \in LoadedIds(w) THEN Spoiled(run[i]) ELSE run[i]]
    /\ stale' = [stale EXCEPT ![w] = {}]
    /\ pc' = [pc EXCEPT ![w] = "scan"]
    /\ apiResult' = NoResult
    /\ UNCHANGED <<now, quietVars, cand, snap, tried, updated, held, pending>>

\* ----------------------------------------------------------------- claim
QueuedIds == {i \in JobIds : jobs[i].status = "queued"}

\* Mutant of IsAscending: the query has no order.
AnyOrder(s) == TRUE

\* .order_by(created_at.asc()): any order of the rows that is ascending in
\* created_at (rows with equal created_at come in either order).
IsAscending(s) ==
    \A a, b \in 1..Len(s) : a < b => jobs[s[a]].created_at <= jobs[s[b]].created_at

Orders(S) ==
    {s \in [1..Cardinality(S) -> S] :
        (\A a, b \in 1..Cardinality(S) : a /= b => s[a] /= s[b]) /\ IsAscending(s)}

\* .limit(20)
Window(s) == SubSeq(s, 1, Min(Len(s), ScanWindow))

\* claim_next_job, the query of the candidates (lines 124-130).
scan_read(w) ==
    /\ pc[w] = "scan"
    /\ \E s \in Orders(QueuedIds) :
        /\ cand' = [cand EXCEPT ![w] = Window(s)]
        /\ snap' = [snap EXCEPT ![w] = IF Len(s) = 0 THEN NoTime ELSE jobs[s[1]].attempts]
    /\ pc' = [pc EXCEPT ![w] = "claim"]
    /\ updated' = [updated EXCEPT ![w] = 0]
    /\ tried' = [tried EXCEPT ![w] = NoJob]
    /\ apiResult' = NoResult
    /\ UNCHANGED <<now, quietVars, documents, jobs, stale, held, pending, lease, run>>

\* Mutants of StillQueued: an update with no condition on the status, and one
\* that only excludes terminal rows.
StillQueuedAlways(j) == TRUE
StillQueuedOrProcessing(j) == jobs[j].status \in {"queued", "processing"}

\* The WHERE clause of the conditional update (lines 135-138).
StillQueued(j) == jobs[j].status = "queued"

\* candidate.attempts: the value loaded by the scan; after a rollback the
\* session's objects are expired and the value is loaded again on access.
CandidateAttempts(w, j) == IF snap[w] = Expired THEN jobs[j].attempts ELSE snap[w]

\* The values of the conditional update (lines 140-147).
ClaimRow(job, w, attempts) ==
    [job EXCEPT !.status = "processing", !.worker_id = w, !.started_at = now,
                !.finished_at = NoTime, !.error_msg = NoMsg,
                !.attempts = attempts + 1]

\* claim_next_job, one iteration of the loop over the candidates that ends in
\* the commit and the return of the claimed job (lines 131-159).  The commit
\* expires the session's objects and the query of line 159 loads the row
\* again: the session holds the row as the claim wrote it.
claim_candidate(w) ==
    /\ pc[w] = "claim"
    /\ cand[w] /= <<>>
    /\ LET j == Head(cand[w]) IN
       /\ StillQueued(j)
       /\ CandidateAttempts(w, j) < MaxAttemptsStored
       /\ jobs' = [jobs EXCEPT ![j] = ClaimRow(jobs[j], w, CandidateAttempts(w, j))]
       /\ documents' = SetDocStatus(documents, jobs[j].document_id, "processing")
       /\ held' = [held EXCEPT ![w] = j]
       /\ lease' = [lease EXCEPT ![w] = "valid"]
       /\ run' = [run EXCEPT ![j] =
                    IF @.pure THEN [@ EXCEPT !.claims = Bump(@), !.since = BumpSince(@)]
                    ELSE [@ EXCEPT !.since = BumpSince(@)]]
    /\ updated' = [updated EXCEPT ![w] = 1]
    /\ tried' = [tried EXCEPT ![w] = NoJob]
    /\ cand' = [cand EXCEPT ![w] = <<>>]
    /\ snap' = [snap EXCEPT ![w] = jobs'[held'[w]].attempts]
    /\ pc' = [pc EXCEPT ![w] = "process"]
    /\ apiResult' = NoResult
    /\ UNCHANGED <<now, quietVars, stale, pending>>

\* claim_next_job, an iteration whose update affects no row: rollback and
\* continue with the next candidate (lines 151-153).
claim_lost(w) ==
    /\ pc[w] = "claim"
    /\ cand[w] /= <<>>
    /\ ~StillQueued(Head(cand[w]))
    /\ updated' = [updated EXCEPT ![w] = 0]
    /\ tried' = [tried EXCEPT ![w] = Head(cand[w])]
    /\ cand' = [cand EXCEPT ![w] = Tail(cand[w])]
    /\ snap' = [snap EXCEPT ![w] = Expired]
    /\ apiResult' = NoResult
    /\ UNCHANGED <<now, quietVars, documents, jobs, pc, stale, held, pending, lease, run>>

\* claim_next_job returns None (line 161); process_next_job returns False
\* and the worker sleeps.
claim_none(w) ==
    /\ pc[w] = "claim"
    /\ cand[w] = <<>>
    /\ pc' = [pc EXCEPT ![w] = "idle"]
    /\ snap' = [snap EXCEPT ![w] = NoTime]
    /\ updated' = [updated EXCEPT ![w] = 0]
    /\ tried' = [tried EXCEPT ![w] = NoJob]
    /\ apiResult' = NoResult
    /\ UNCHANGED <<now, quietVars, documents, jobs, stale, cand, held, pending, lease, run>>

\* --------------------------------------------------------------- reports
\* The branch of _mark_job_failed_or_retry (line 171).
BudgetExhausted(job) == job.attempts >= job.max_attempts

\* _mark_job_failed_or_retry: the row after the report (lines 171-185).
\* seen is the row as the session holds it: the branch reads it, and the
\* flush writes the assigned columns to the row of the table.
FailedOrRetryRow(job, seen, error_msg) ==
    IF BudgetExhausted(seen)
    THEN [job EXCEPT !.status = "failed", !.error_msg = safe_error(error_msg),
                     !.finished_at = now, !.worker_id = NULL]
    ELSE [job EXCEPT !.status = "queued", !.error_msg = safe_error(error_msg),
                     !.worker_id = NULL, !.started_at = NoTime]

\* _mark_job_failed_or_retry(db, job_id, error_msg), called by worker w
\* whose session holds the row as seen.
mark_job_failed_or_retry(w, j, seen, error_msg) ==
    /\ jobs' = [jobs EXCEPT ![j] = FailedOrRetryRow(jobs[j], seen, error_msg)]
    /\ documents' = SetDocStatus(documents, jobs[j].document_id,
                        IF BudgetExhausted(seen) THEN "failed" ELSE "queued")
    /\ lease' = [Displaced(lease, j, w) EXCEPT ![w] = "none"]
    /\ run' = [run EXCEPT ![j] =
                 IF @.pure /\ error_msg = ErrEmbed /\ lease[w] = "valid"
                 THEN [@ EXCEPT !.fails = Bump(@)] ELSE Spoiled(@)]

\* The worker is back in its loop.
Returned(w) ==
    /\ pc' = [pc EXCEPT ![w] = "idle"]
    /\ held' = [held EXCEPT ![w] = NoJob]
    /\ updated' = [updated EXCEPT ![w] = 0]
    /\ snap' = [snap EXCEPT ![w] = NoTime]
    /\ apiResult' = NoResult
    /\ UNCHANGED <<now, quietVars, stale, cand, tried, pending>>

\* The row of job j as the session of worker w holds it since the claim
\* returned it: a query of a row the session holds does not load it again
\* (lines 159, 164).
HeldRow(w, j) == [jobs[j] EXCEPT !.attempts = snap[w]]

\* process_job: the document is missing (lines 196-199).
process_job_no_document(w) ==
    /\ pc[w] = "process"
    /\ documents[jobs[held[w]].document_id] = "absent"
    /\ mark_job_failed_or_retry(w, held[w], HeldRow(w, held[w]), MsgDocNotFound)
    /\ Returned(w)

\* process_job: the row after a successful ingest (lines 206-209).  The
\* session holds the row as the claim returned it, with error_msg None:
\* the assignment of line 207 changes nothing in the session and the flush
\* writes status, worker_id and finished_at.
CompletedRow(job) ==
    [job EXCEPT !.status = "completed", !.worker_id = NULL, !.finished_at = now]

\* process_job: ingest_document returned (lines 202-212).
process_job_ok(w) ==
    /\ pc[w] = "process"
    /\ LET j == held[w] IN
       /\ documents[jobs[j].document_id] /= "absent"
       /\ jobs' = [jobs EXCEPT ![j] = CompletedRow(jobs[j])]
       /\ documents' = [documents EXCEPT ![jobs[j].document_id] = "completed"]
       /\ lease' = [Displaced(lease, j, w) EXCEPT ![w] = "none"]
       /\ run' = [run EXCEPT ![j] = Spoiled(@)]
    /\ Returned(w)

\* Mutant of Caught: process_job has no handler.
CaughtNever(e) == FALSE

\* except Exception (line 213): the errors of an ingest are Exceptions.
Caught(e) == e \in ErrTexts

\* process_job: ingest_document raised exc, str(exc) = e.  The handler of
\* process_job rolls back, which expires the session's objects, and reports
\* the failure on the row as the table holds it (lines 213-217); an exception it does not
\* catch reaches the handler of the worker's loop, which logs it
\* (ingest_worker.py lines 31-33), and nothing is reported.
process_job_raise(w, e) ==
    /\ pc[w] = "process"
    /\ documents[jobs[held[w]].document_id] /= "absent"
    /\ IF Caught(e)
       THEN mark_job_failed_or_retry(w, held[w], jobs[held[w]], e)
       ELSE UNCHANGED <<jobs, documents, lease, run>>
    /\ Returned(w)

\* ---------------------------------------------------------- worker loop
\* The variables a step of the worker's process, outside the queue, leaves
\* alone.
tableVars == <<now, settings, documents, jobs, pending, calls, observed, active,
               llm, lease, run>>

\* IngestWorker.stop: the signal handler sets the flag (lines 22-23).
stop(w) ==
    /\ pc[w] \notin {"exited", "killed"}
    /\ ~stopping[w]
    /\ stopping' = [stopping EXCEPT ![w] = TRUE]
    /\ stopAt' = [stopAt EXCEPT ![w] = pc[w]]
    /\ apiResult' = NoResult
    /\ UNCHANGED <<tableVars, workerVars>>

\* IngestWorker.run: the test of the loop finds the flag set and run returns
\* (lines 27, 39).
worker_exit(w) ==
    /\ pc[w] = "idle"
    /\ ~LoopTest(w)
    /\ pc' = [pc EXCEPT ![w] = "exited"]
    /\ apiResult' = NoResult
    /\ UNCHANGED <<tableVars, stopping, stopAt, stale, cand, snap, tried, updated, held>>

\* The worker's process is killed while ingest_document runs: nothing is
\* reported.  The model follows a kill only while the clock can still pass
\* the lease of the job.
kill(w) ==
    /\ pc[w] = "process"
    /\ now + TickStep <= MaxTime
    /\ pc' = [pc EXCEPT ![w] = "killed"]
    /\ apiResult' = NoResult
    /\ UNCHANGED <<tableVars, stopping, stopAt, stale, cand, snap, tried, updated, held>>

\* ----------------------------------------------------------------- time
Tick ==
    /\ now + TickStep <= MaxTime
    /\ now' = now + TickStep
    /\ apiResult' = NoResult
    /\ UNCHANGED <<quietVars, documents, jobs, workerVars, pending, lease, run>>

WorkerStep ==
    \/ \E w \in active : sweep_read(w)
    \/ \E w \in active : sweep_write(w)
    \/ \E w \in active : scan_read(w)
    \/ \E w \in active : claim_candidate(w)
    \/ \E w \in active : claim_lost(w)
    \/ \E w \in active : claim_none(w)
    \/ \E w \in active : process_job_no_document(w)
    \/ \E w \in active : process_job_ok(w)
    \/ \E w \in active, e \in ErrInputs : process_job_raise(w, e)

\* Producer calls run one at a time; any number of workers.
Next ==
    \/ \E d \in Docs, m \in ModeInputs : enqueue_document(d, m)
    \/ \E d \in Docs : retry_document_job(d)
    \/ WorkerStep
    \/ Tick

Spec == Init /\ [][Next]_vars

\* The steps of a worker that runs alone: no other process takes a candidate
\* between its scan and its update, so no update of it affects zero rows; and
\* while it holds a job it starts no sweep, so its sweeps load no row.
SoleWorkerStep ==
    \/ \E w \in active : sweep_read(w)
    \/ \E w \in active : scan_read(w)
    \/ \E w \in active : claim_candidate(w)
    \/ \E w \in active : claim_none(w)
    \/ \E w \in active : process_job_no_document(w)
    \/ \E w \in active : process_job_ok(w)
    \/ \E w \in active, e \in ErrInputs : process_job_raise(w, e)

\* Producer calls overlap and their outcomes are recorded; one worker.
InitApi == InitTables /\ observed = TRUE /\ active = {"w1"} /\ llm = LlmOff

NextApi ==
    \/ \E p \in Producers, d \in Docs, m \in ModeInputs : enqueue_lookup(p, d, m)
    \/ \E p \in Producers : enqueue_insert(p)
    \/ \E d \in Docs : retry_document_job(d)
    \/ SoleWorkerStep
    \/ Tick

SpecApi == InitApi /\ [][NextApi]_vars

\* The steps of worker w while its flag is not set.
Polling(w) ==
    \/ sweep_read(w)
    \/ sweep_write(w)
    \/ scan_read(w)
    \/ claim_candidate(w)
    \/ claim_lost(w)
    \/ claim_none(w)
    \/ process_job_no_document(w)
    \/ process_job_ok(w)
    \/ \E e \in ErrInputs : process_job_raise(w, e)

\* The workers that may be killed; the others keep polling.
Mortal == {"w2"}

\* Each document is enqueued once and may be retried; a worker may be
\* killed; every running worker keeps taking steps, every ingest returns or
\* raises, and the clock advances.
NextLive ==
    \/ \E d \in Docs, m \in ModeInputs :
          get_job_for_document(d) = NoJob /\ enqueue_document(d, m)
    \/ \E d \in Docs : retry_document_job(d)
    \/ \E w \in Workers : Polling(w)
    \/ \E w \in Mortal : kill(w)
    \/ Tick

SpecLive ==
    /\ Init
    /\ [][NextLive]_vars
    /\ \A w \in Workers : WF_vars(Polling(w))
    /\ WF_vars(Tick)

\* One worker that is told to stop at any moment; each document is enqueued
\* once and may be retried meanwhile.  The worker keeps taking steps and every ingest
\* returns or raises.
SoleWorkerLoop ==
    \/ SoleWorkerStep
    \/ \E w \in active : worker_exit(w)

NextStop ==
    \/ \E d \in Docs, m \in ModeInputs :
          get_job_for_document(d) = NoJob /\ enqueue_document(d, m)
    \/ \E d \in Docs : retry_document_job(d)
    \/ SoleWorkerLoop
    \/ \E w \in active : stop(w)
    \/ Tick

InitStop == InitTables /\ observed = FALSE /\ active = {"w1"} /\ llm = LlmOff

SpecStop ==
    /\ InitStop
    /\ [][NextStop]_vars
    /\ WF_vars(SoleWorkerLoop)

\* One worker whose ingests raise exceptions with any text: a usual one, an
\* empty one and one longer than the column's bound.  Each document is
\* enqueued once and may be retried.
InitErr == InitTables /\ observed = FALSE /\ active = {"w1"} /\ llm = LlmOff

NextErr ==
    \/ \E d \in Docs, m \in ModeInputs :
          get_job_for_document(d) = NoJob /\ enqueue_document(d, m)
    \/ \E d \in Docs : retry_document_job(d)
    \/ SoleWorkerStep
    \/ \E w \in active, e \in ErrTexts \ ErrInputs : process_job_raise(w, e)
    \/ Tick

SpecErr == InitErr /\ [][NextErr]_vars

\* Producer calls with any text as the mode, under any configured default
\* mode, while one worker processes the jobs; the outcome of the calls is
\* recorded.
InitMode ==
    /\ InitWith({2}, LockTimeoutSettings, DefaultModes)
    /\ observed = TRUE /\ active = {"w1"} /\ llm = LlmOff

NextMode ==
    \/ \E d \in Docs, m \in ModeTexts : enqueue_document(d, m)
    \/ SoleWorkerStep
    \/ Tick

SpecMode == InitMode /\ [][NextMode]_vars

\* One call of run_with_retry; the queue is idle.
InitLLM ==
    /\ InitTables /\ observed = FALSE /\ active = Workers
    /\ \E m \in -1..MaxRetries, k \in 1..(MaxRetries + 1) : llm = LlmCall(m, k)

NextLLM ==
    \/ llm_loop
    \/ \E ok \in BOOLEAN : llm_primary(ok)
    \/ \E ok \in BOOLEAN : llm_fallback(ok)
    \/ llm_parse_raises
    \/ llm_validate_raises
    \/ \E reason \in {NoMsg, ErrEmpty, MsgReason} : llm_validate(reason)

SpecLLM == InitLLM /\ [][NextLLM]_vars

\* =====================================================================
\* Properties of the job queue
\* =====================================================================

\* A step in which worker w's conditional update claims job j.
Claims(w, j) == held[w] /= j /\ held'[w] = j

\* C1: a conditional update claims a job only if the job's row is 'queued'
\* when the update is written, and it leaves the row 'processing' under the
\* claimer, so that no second update succeeds for the same queued ->
\* processing transition; an update on a row that is no longer 'queued'
\* affects zero rows, changes no row and claims nothing for that job.
ClaimIsConditional ==
    [][\A w \in Workers :
        /\ \A j \in JobIds :
              Claims(w, j) =>
                 /\ jobs[j].status = "queued"
                 /\ jobs'[j].status = "processing"
                 /\ jobs'[j].worker_id = w
                 /\ \A x \in Workers \ {w} : ~Claims(x, j)
        /\ (pc[w] = "claim" /\ cand[w] /= <<>> /\ cand'[w] /= cand[w]
              /\ jobs[Head(cand[w])].status /= "queued") =>
                 /\ jobs' = jobs
                 /\ updated'[w] = 0
                 /\ held'[w] = NoJob
                 /\ pc'[w] = "claim"]_vars

\* C1 witness: two workers read job j as a candidate; one claimed it and
\* holds it, the other's update on j has just affected zero rows.
TwoClaimersOneWinner ==
    \E w1, w2 \in Workers :
        /\ w1 /= w2
        /\ held[w1] /= NoJob
        /\ lease[w1] = "valid"
        /\ pc[w2] = "claim"
        /\ tried[w2] = held[w1]
        /\ updated[w2] = 0

\* C2 as stated: no two workers have claimed the same job and not yet
\* reported its outcome.
OneUnreportedClaimPerJob ==
    \A w1, w2 \in Workers :
        (w1 /= w2 /\ held[w1] /= NoJob) => held[w1] /= held[w2]

\* C2 amended: of the workers that have claimed a job and not yet reported
\* it, at most one holds a claim that no later write to the row (the sweep,
\* an enqueue of the document, a report by an earlier claimer) has displaced.
OneValidLeasePerJob ==
    \A w1, w2 \in Workers :
        (w1 /= w2 /\ held[w1] /= NoJob /\ held[w1] = held[w2])
            => ~(lease[w1] = "valid" /\ lease[w2] = "valid")

\* C2 witness: two workers hold the same job, one of them with a valid claim.
DisplacedAndValidHolder ==
    \E w1, w2 \in Workers :
        /\ w1 /= w2
        /\ held[w1] /= NoJob
        /\ held[w1] = held[w2]
        /\ lease[w1] = "revoked"
        /\ lease[w2] = "valid"
        /\ jobs[held[w2]].worker_id = w2

\* C3: every document has at most one row in the job table.
OneJobPerDocument == \A d \in Docs : Cardinality(JobRows(d)) <= 1

\* C3 witness: two enqueue calls of one document overlapped; the second
\* insert was refused and the document has its one row.
SecondInsertRefused ==
    /\ apiResult.result = "integrity_error"
    /\ Cardinality(JobRows(apiResult.doc)) = 1

\* C4 as stated: a failure report on a job with attempts = max_attempts
\* makes it 'failed', and a 'failed' job becomes 'queued' only by a step of
\* retry_document_job.
FailedUntilRetry ==
    [][/\ \A w \in Workers :
            (pc[w] = "process" /\ pc'[w] = "idle"
               /\ jobs[held[w]].attempts = jobs[held[w]].max_attempts
               /\ jobs'[held[w]].status /= "completed")
            => jobs'[held[w]].status = "failed"
       /\ \A j \in JobIds :
            (jobs[j].status = "failed" /\ jobs'[j].status = "queued")
            => retry_document_job(jobs[j].document_id)]_vars

\* The rows that are 'processing' with started_at older than the lease
\* timeout.
ExpiredLeases ==
    {i \in JobIds : /\ jobs[i].status = "processing"
                    /\ jobs[i].started_at /= NoTime
                    /\ now - jobs[i].started_at > lock_timeout_seconds}

\* A step in which worker w's sweep loads rows, and one in which it writes.
SweepLoads(w) == pc[w] = "idle" /\ pc'[w] /= "idle"
SweepWrites(w) == pc[w] = "sweep" /\ pc'[w] = "scan"

\* C5 as stated: the sweep of a claim_next_job call loads every job whose
\* lease has expired, and its write leaves each of them 'queued' with the
\* lease cleared.
SweepRequeuesEveryExpired ==
    [][\A w \in Workers :
        /\ SweepLoads(w) => {ld.id : ld \in stale'[w]} = ExpiredLeases
        /\ SweepWrites(w) =>
              \A ld \in stale[w] :
                 /\ jobs'[ld.id].status = "queued"
                 /\ jobs'[ld.id].worker_id = NULL
                 /\ jobs'[ld.id].started_at = NoTime]_vars

\* C5 amended: the sweep loads every job whose lease has expired; its write
\* leaves such a job 'queued' with worker_id and started_at cleared when the
\* attempts it loaded are below max_attempts, and 'failed' otherwise.
SweepRequeuesWithinBudget ==
    [][\A w \in Workers :
        /\ SweepLoads(w) => {ld.id : ld \in stale'[w]} = ExpiredLeases
        /\ SweepWrites(w) =>
              \A ld \in stale[w] :
                 IF ld.attempts < ld.max_attempts
                 THEN /\ jobs'[ld.id].status = "queued"
                      /\ jobs'[ld.id].worker_id = NULL
                      /\ jobs'[ld.id].started_at = NoTime
                 ELSE jobs'[ld.id].status = "failed"]_vars

\* C5 witness: a job whose lease expired has been requeued by a sweep and a
\* worker has it as a candidate again.
RequeuedBySweep ==
    \E w \in Workers : \E k \in 1..Len(cand[w]) :
        /\ jobs[cand[w][k]].status = "queued"
        /\ jobs[cand[w][k]].error_msg = MsgTimedOut
        /\ jobs[cand[w][k]].worker_id = NULL

\* A step that is a call of retry_document_job for document d.
RetryCalled(d) ==
    /\ calls' = calls + 1
    /\ apiResult'.op = "retry"
    /\ apiResult'.doc = d

\* C6: retry_document_job on a job that is 'queued' or 'processing' raises
\* the invalid-state error and changes no job and no document.
RetryRejectsActiveJob ==
    [][\A d \in Docs :
        (/\ RetryCalled(d)
         /\ get_job_for_document(d) /= NoJob
         /\ jobs[get_job_for_document(d)].status \in {"queued", "processing"})
        => /\ apiResult'.result = "invalid_state"
           /\ jobs' = jobs
           /\ documents' = documents]_vars

\* C6 witness: a retry of a document whose job is 'processing' was refused.
RetryRefusedWhileProcessing ==
    /\ apiResult.op = "retry"
    /\ apiResult.result = "invalid_state"
    /\ jobs[get_job_for_document(apiResult.doc)].status = "processing"

\* C7: retry_document_job on a job that is 'failed' or 'completed' succeeds
\* and leaves it 'queued' with attempts 0 and error_msg, worker_id,
\* started_at and finished_at null.
RetryResetsTerminalJob ==
    [][\A d \in Docs :
        (/\ RetryCalled(d)
         /\ get_job_for_document(d) /= NoJob
         /\ jobs[get_job_for_document(d)].status \in {"failed", "completed"})
        => LET job == jobs'[get_job_for_document(d)] IN
           /\ apiResult'.result = "ok"
           /\ job.status = "queued"
           /\ job.attempts = 0
           /\ job.error_msg = NoMsg
           /\ job.worker_id = NULL
           /\ job.started_at = NoTime
           /\ job.finished_at = NoTime]_vars

\* C7 witness: a retry has succeeded on a job that had used attempts.
RetrySucceeded ==
    /\ apiResult.op = "retry"
    /\ apiResult.result = "ok"
    /\ jobs[get_job_for_document(apiResult.doc)].status = "queued"
    /\ jobs[get_job_for_document(apiResult.doc)].attempts = 0

\* C8 as stated: for a job since its creation claimed and failed with
\* "embed timeout" only (no sweep, no enqueue, no retry, no success), the
\* k-th claim leaves attempts = k, each failure below the budget requeues it
\* with attempts unchanged, the failure at the budget makes it 'failed' with
\* that error; and a claim_next_job that finds the job 'processing' and no
\* job queued returns none.
FailureScenario ==
    /\ [](\A j \in JobIds :
            run[j].pure =>
               /\ jobs[j].status /= "completed"
               /\ jobs[j].status = "processing" =>
                     /\ jobs[j].attempts = run[j].claims
                     /\ run[j].claims = run[j].fails + 1
               /\ jobs[j].status = "queued" =>
                     /\ jobs[j].attempts = run[j].fails
                     /\ run[j].claims = run[j].fails
                     /\ run[j].fails < jobs[j].max_attempts
               /\ jobs[j].status = "failed" =>
                     /\ jobs[j].attempts = jobs[j].max_attempts
                     /\ run[j].fails = jobs[j].max_attempts
                     /\ jobs[j].error_msg = ErrEmbed)
    /\ [][\A w \in Workers :
            (pc[w] = "scan" /\ pc'[w] = "claim" /\ QueuedIds = {})
               => cand'[w] = <<>>]_vars

\* C10 as stated: worker_id is non-null exactly when status = 'processing'.
WorkerIdIffProcessing ==
    \A j \in JobIds : (jobs[j].worker_id /= NULL) <=> (jobs[j].status = "processing")

\* C11 as stated: a job that is 'failed' has attempts >= max_attempts.
FailedHasNoBudgetLeft ==
    \A j \in JobIds :
        jobs[j].status = "failed" => jobs[j].attempts >= jobs[j].max_attempts

\* C12 as stated: no step lowers the attempts of a job, except a step of
\* retry_document_job for its document, which sets it to 0.
AttemptsLoweredOnlyByRetry ==
    [][\A j \in JobIds :
         jobs'[j].attempts < jobs[j].attempts
            => /\ retry_document_job(jobs[j].document_id)
               /\ jobs'[j].attempts = 0]_vars

\* C13 as stated: when enqueue_document returns, the document's job is
\* 'queued' with attempts 0 and worker_id, error_msg, started_at and
\* finished_at null, whether the job was created or existed.
EnqueueLeavesFreshJob ==
    [][\A d \in Docs :
         (apiResult'.op = "enqueue" /\ apiResult'.doc = d /\ apiResult'.result = "ok")
         => \A j \in 1..Len(jobs') :
               jobs'[j].document_id = d
               => /\ jobs'[j].status = "queued"
                  /\ jobs'[j].attempts = 0
                  /\ jobs'[j].worker_id = NULL
                  /\ jobs'[j].error_msg = NoMsg
                  /\ jobs'[j].started_at = NoTime
                  /\ jobs'[j].finished_at = NoTime]_vars

\* C14 as stated: the status of a 'completed' or 'failed' job changes only in
\* a step of retry_document_job for its document or in the write of a sweep.
TerminalUntilRetryOrSweep ==
    [][\A j \in JobIds :
         (jobs[j].status \in {"completed", "failed"}
            /\ jobs'[j].status /= jobs[j].status)
         => \/ retry_document_job(jobs[j].document_id)
            \/ \E w \in Workers : SweepWrites(w)]_vars

\* C15: when every running worker keeps polling, every ingest returns or
\* raises and the clock advances, a newly enqueued job is eventually claimed
\* by a worker, and a job that is 'queued' or 'processing' eventually becomes
\* 'completed' or 'failed', also when the worker that held it was killed.
EveryJobIsExecuted ==
    \A j \in 1..Cardinality(Docs) :
        /\ (j \in JobIds /\ run[j] = FreshRun) ~> (\E w \in Workers : held[w] = j)
        /\ (j \in JobIds /\ jobs[j].status \in {"queued", "processing"})
              ~> (j \in JobIds /\ jobs[j].status \in {"completed", "failed"})

\* C15 witness: a job whose worker was killed has been taken over and has
\* reached a terminal status.
AbandonedJobFinished ==
    \E w \in Workers :
        /\ pc[w] = "killed"
        /\ jobs[held[w]].status \in {"completed", "failed"}
        /\ jobs[held[w]].attempts > 1

\* C16: a step in which a worker's ingest raises leaves the job reported as
\* failed (requeued or 'failed', with the error recorded and the lease
\* cleared), a step in which it returns leaves the job 'completed'; either
\* way the worker is back at the head of its loop, and no worker's loop ends.
JobErrorsAreReported ==
    [][\A w \in Workers :
        /\ \A e \in ErrInputs :
              process_job_raise(w, e)
              => /\ jobs'[held[w]].status \in {"queued", "failed"}
                 /\ jobs'[held[w]].error_msg = safe_error(e)
                 /\ jobs'[held[w]].worker_id = NULL
                 /\ pc'[w] = "idle"
        /\ process_job_ok(w)
              => /\ jobs'[held[w]].status = "completed"
                 /\ pc'[w] = "idle"
        /\ pc'[w] \notin {"exited", "killed"}]_vars

\* C16 witness: a failure has been reported for a job and every worker is
\* in a later iteration of its loop.
PollingAfterFailure ==
    /\ \E j \in JobIds :
          jobs[j].status = "failed" /\ jobs[j].error_msg = safe_error(ErrEmbed)
    /\ \A w \in Workers : pc[w] = "claim"

\* C17: a worker whose flag is set starts no iteration, the iteration in
\* progress runs to its report, and the worker's loop ends; a worker whose
\* loop has ended holds no unreported job and takes no further step.
CooperativeShutdown ==
    /\ [](\A w \in Workers : pc[w] = "exited" => (held[w] = NoJob /\ stopping[w]))
    /\ [][\A w \in Workers :
            /\ (stopping[w] /\ pc[w] = "idle") => pc'[w] \in {"idle", "exited"}
            /\ pc[w] = "exited" => (pc'[w] = "exited" /\ held'[w] = NoJob)]_vars
    /\ \A w \in Workers : stopping[w] ~> (pc[w] = "exited")

\* C17 witness: the flag was set while the worker's ingest was running; the
\* worker reported the job and its loop has ended.
StoppedInFlightAndExited ==
    \E w \in Workers :
        /\ stopAt[w] = "process"
        /\ pc[w] = "exited"
        /\ held[w] = NoJob
        /\ \E j \in JobIds : jobs[j].status \in {"completed", "failed"}

\* =====================================================================
\* Properties of run_with_retry
\* =====================================================================

\* C9: when every attempt yields text and parses, and validate_fn first
\* accepts on attempt k, the call returns success iff k <= max_retries, and
\* then with attempts = k and retry_count = k - 1.
SucceedsIffAcceptedInBudget ==
    (llm.pc = "done" /\ ~llm.parse_raised) =>
        /\ llm.result.success <=> (llm.accept_at <= llm.max_retries)
        /\ llm.result.success =>
              /\ llm.result.attempts = llm.accept_at
              /\ llm.result.retry_count = llm.accept_at - 1

\* C9 witness: validate_fn rejected attempts 1 and 2 and accepted attempt 3
\* with max_retries = 3: success with retry_count = 2.
AcceptedOnThirdAttempt ==
    /\ llm.pc = "done"
    /\ ~llm.parse_raised
    /\ llm.accept_at = 3
    /\ llm.max_retries = 3
    /\ llm.result.success
    /\ llm.result.attempts = 3
    /\ llm.result.retry_count = 2

\* C18: when the fallback transport fails after the primary one, the
\* exception leaves run_with_retry at once: no result is returned, nothing
\* is parsed for that attempt and no further step of the call is taken,
\* even with attempts left in the budget.
HardErrorPropagates ==
    /\ [][(llm.pc = "fallback" /\ llm'.pc /= "parse")
            => /\ llm'.pc = "raised"
               /\ llm'.result = NoWorkflowResult
               /\ llm'.attempts = llm.attempts
               /\ llm'.last_parsed_result = llm.last_parsed_result
               /\ llm'.last_error = llm.last_error]_vars
    /\ [][llm.pc = "raised" => llm' = llm]_vars

\* C18 witness: both transports failed on attempt 2 of 3; the call raised
\* and returned no result.
RaisedWithBudgetLeft ==
    /\ llm.pc = "raised"
    /\ llm.attempts = 2
    /\ llm.max_retries = 3
    /\ llm.result = NoWorkflowResult

\* C19: an exception of parse_fn never leaves run_with_retry: it is recorded
\* as last_error and the loop goes on; the next step is the next attempt if
\* the budget allows one and the return of the failure result otherwise.
\* Only the failure of both transports makes the call raise.
ParseErrorsAreRetried ==
    /\ [][llm_parse_raises
            => /\ llm'.pc = "loop"
               /\ llm'.last_error = MsgParse
               /\ llm'.result = NoWorkflowResult
               /\ llm'.attempts = llm.attempts]_vars
    /\ [][(llm.pc = "loop" /\ llm.last_error = MsgParse)
            => IF llm.attempts < llm.max_retries
               THEN llm'.pc = "primary" /\ llm'.attempts = llm.attempts + 1
               ELSE /\ llm'.pc = "done"
                    /\ ~llm'.result.success
                    /\ llm'.result.last_error = MsgParse]_vars
    /\ [][llm'.pc = "raised" => llm.pc \in {"fallback", "raised"}]_vars

\* C19 witness: parse_fn raised on an attempt and a later attempt of the
\* same call succeeded.
SucceededAfterParseError ==
    /\ llm.pc = "done"
    /\ llm.parse_raised
    /\ llm.result.success
    /\ llm.result.attempts > 1

\* C20: a call with a budget of at least one attempt that ends without a
\* validated result returns success = false, attempts = max_retries, the
\* error of the last attempt as last_error, and as parsed_result the last
\* value parse_fn returned: the value of the last attempt when that attempt
\* failed in validate_fn, a value of an earlier attempt or null when it
\* failed in parse_fn, and null when parse_fn never returned.
ExhaustedBudgetResult ==
    (llm.pc = "done" /\ ~llm.result.success /\ llm.max_retries >= 1)
    => /\ llm.result.attempts = llm.max_retries
       /\ llm.result.retry_count = llm.max_retries - 1
       /\ llm.result.last_error = llm.last_error
       /\ llm.result.last_error \in {MsgParse, MsgValidate, MsgInvalid, MsgReason}
       /\ llm.result.parsed_result = llm.last_parsed_result
       /\ llm.result.last_error /= MsgParse
            => llm.result.parsed_result = Parsed(llm.response_text)
       /\ llm.result.last_error = MsgParse
            => \/ llm.result.parsed_result = NoParsed
               \/ llm.result.parsed_result.of.attempt \in 1..(llm.max_retries - 1)
       /\ ~llm.parse_raised => llm.result.parsed_result.of.attempt = llm.max_retries
       /\ llm.result.response_text.attempt = llm.max_retries

\* C20 witness: a call with max_retries = 3 whose attempt 2 was parsed and
\* rejected and whose attempt 3 failed in parse_fn returned the failure
\* result with the parsed value of attempt 2.
FailedWithEarlierParsedValue ==
    /\ llm.pc = "done"
    /\ ~llm.result.success
    /\ llm.max_retries = 3
    /\ llm.result.attempts = 3
    /\ llm.result.last_error = MsgParse
    /\ llm.result.parsed_result.of.attempt = 2

\* =====================================================================
\* Further properties of the job queue
\* =====================================================================

\* C21: retry_document_job for a document without a job raises the
\* not-found error, adds no job and changes no document.
RetryOfMissingJobFails ==
    [][\A d \in Docs :
        (RetryCalled(d) /\ get_job_for_document(d) = NoJob)
        => /\ apiResult'.result = "not_found"
           /\ jobs' = jobs
           /\ documents' = documents]_vars

\* C21 witness: a retry of a stored document that has no job was refused
\* while another document has a job.
RetryRefusedWithoutJob ==
    /\ apiResult.op = "retry"
    /\ apiResult.result = "not_found"
    /\ apiResult.doc \in StoredDocs
    /\ JobRows(apiResult.doc) = {}
    /\ jobs /= <<>>

\* C22 as stated: a claim leaves the row 'processing' under the claimer with
\* started_at = now and attempts one more than the row's attempts when the
\* update is written.
ClaimCountsFromTheRow ==
    [][\A w \in Workers : \A j \in JobIds :
         Claims(w, j)
         => /\ jobs'[j].status = "processing"
            /\ jobs'[j].worker_id = w
            /\ jobs'[j].started_at = now
            /\ jobs'[j].attempts = jobs[j].attempts + 1]_vars

\* A step in which worker w reports a failure of the job it holds.
ReportsFailure(w) ==
    \/ process_job_no_document(w)
    \/ \E e \in ErrInputs : process_job_raise(w, e)

\* C23 as stated: a failure report on a job whose attempts have reached
\* max_attempts leaves it 'failed' with the error recorded, worker_id null
\* and finished_at set; on any other job it leaves it 'queued' with the
\* error recorded and worker_id and started_at null, among the jobs the
\* next scan reads.
FailureReportBranches ==
    [][\A w \in Workers :
         ReportsFailure(w)
         => LET j == held[w] IN
            /\ jobs'[j].error_msg \in {safe_error(e) : e \in ErrInputs \cup {MsgDocNotFound}}
            /\ jobs'[j].worker_id = NULL
            /\ IF jobs[j].attempts >= jobs[j].max_attempts
               THEN /\ jobs'[j].status = "failed"
                    /\ jobs'[j].finished_at = now
               ELSE /\ jobs'[j].status = "queued"
                    /\ jobs'[j].started_at = NoTime
                    /\ j \in QueuedIds']_vars

\* C24 as stated: a success report leaves the job 'completed' with worker_id and
\* error_msg null and finished_at set; a success report on a job that is
\* 'completed' already leaves status, worker_id and attempts as they were.
SuccessReportIsIdempotent ==
    [][\A w \in Workers :
         process_job_ok(w)
         => LET j == held[w] IN
            /\ jobs'[j].status = "completed"
            /\ jobs'[j].worker_id = NULL
            /\ jobs'[j].error_msg = NoMsg
            /\ jobs'[j].finished_at = now
            /\ jobs[j].status = "completed"
                  => /\ jobs'[j].status = jobs[j].status
                     /\ jobs'[j].worker_id = jobs[j].worker_id
                     /\ jobs'[j].attempts = jobs[j].attempts]_vars

\* C25: the write of a sweep moves each job that is 'processing' with an
\* expired lease to 'failed' when its attempts have reached max_attempts,
\* and otherwise to 'queued' with worker_id and started_at null and the
\* time-out message recorded; it changes the attempts of no job.
SweepMovesExpiredJobs ==
    [][\A w \in Workers :
         SweepWrites(w)
         => /\ \A j \in JobIds : jobs'[j].attempts = jobs[j].attempts
            /\ \A j \in ExpiredLeases :
                  /\ j \in {ld.id : ld \in stale[w]}
                  /\ IF jobs[j].attempts >= jobs[j].max_attempts
                     THEN jobs'[j].status = "failed"
                     ELSE /\ jobs'[j].status = "queued"
                          /\ jobs'[j].worker_id = NULL
                          /\ jobs'[j].started_at = NoTime
                          /\ jobs'[j].error_msg = MsgTimedOut]_vars

\* C25 witness: a sweep has moved a job whose budget was used up to 'failed'.
FailedBySweep ==
    \E j \in JobIds :
        /\ jobs[j].status = "failed"
        /\ jobs[j].error_msg = MsgWorkerTimeout
        /\ jobs[j].attempts = jobs[j].max_attempts

\* C26 as stated: the write of a sweep changes no job that is not
\* 'processing' with an expired lease when the write is made.
SweepTouchesOnlyExpiredJobs ==
    [][\A w \in Workers :
         SweepWrites(w)
         => \A j \in JobIds \ ExpiredLeases : jobs'[j] = jobs[j]]_vars

StoredErrorsAreBounded ==
    /\ [](\A j \in JobIds :
            jobs[j].error_msg = NoMsg
               \/ (jobs[j].error_msg.len >= 1 /\ jobs[j].error_msg.len <= ErrLimit))
    /\ [][\A w \in Workers : \A e \in ErrTexts :
            process_job_raise(w, e)
            => jobs'[held[w]].error_msg =
                  IF e.len = 0 THEN MsgUnknown
                  ELSE [e EXCEPT !.len = IF e.len > ErrLimit THEN ErrLimit ELSE e.len]]_vars
    /\ [](safe_error(NoMsg) = MsgUnknown /\ MsgUnknown.len >= 1)

\* C29 witness: a job carries an error that was longer than 4000 characters,
\* cut to 4000.
LongErrorStoredCut ==
    \E j \in JobIds :
        /\ jobs[j].status = "failed"
        /\ jobs[j].error_msg = [ErrLong EXCEPT !.len = ErrLimit]

\* C30: a call of run_with_retry makes at most max_retries attempts (none
\* when max_retries is not positive) and calls parse_fn at most once in each
\* of them; the result it returns has attempts <= max_retries and
\* retry_count = max(0, attempts - 1).
AttemptsWithinBudget ==
    /\ llm.attempts <= Max(0, llm.max_retries)
    /\ llm.parse_calls <= 1
    /\ llm.pc = "done"
          => /\ llm.result.attempts = llm.attempts
             /\ llm.result.attempts <= Max(0, llm.max_retries)
             /\ llm.result.retry_count = Max(0, llm.result.attempts - 1)

\* C30 witness: a call with max_retries = 3 has returned after three
\* attempts, the last of which called parse_fn.
ReturnedAfterLastAttempt ==
    /\ llm.pc = "done"
    /\ llm.max_retries = 3
    /\ llm.result.attempts = 3
    /\ llm.result.retry_count = 2
    /\ llm.parse_calls = 1

\* =====================================================================
\* Further properties of run_with_retry
\* =====================================================================

\* C31: in one attempt the provider is called directly at most once, and
\* only after the runnable raised; the exception of the runnable does not
\* leave generate_text and changes no local of run_with_retry; and a text
\* of the direct call is parsed and validated as a text of the runnable is:
\* the attempt succeeds iff validate_fn accepts, with that text in the
\* result and no error.
FallbackOnlyAfterPrimaryFailure ==
    /\ [](/\ llm.fallback_calls <= 1
          /\ llm.fallback_calls = 1 => llm.primary_failed
          /\ llm.pc = "fallback" => llm.primary_failed /\ llm.fallback_calls = 0)
    /\ [][/\ llm.pc = "primary"
              => /\ llm'.pc \in {"parse", "fallback"}
                 /\ llm'.last_error = llm.last_error
                 /\ llm'.attempts = llm.attempts
                 /\ llm'.result = llm.result
          /\ (llm.pc = "parse" /\ llm'.pc = "done")
              => /\ llm.attempts >= llm.accept_at
                 /\ llm'.result.success
                 /\ llm'.result.response_text = llm.response_text
                 /\ llm'.result.parsed_result = Parsed(llm.response_text)
                 /\ llm'.result.last_error = NoMsg
          /\ (llm.pc = "parse" /\ llm'.pc = "loop")
              => llm'.last_error \in {MsgParse, MsgValidate, MsgInvalid, MsgReason}]_vars

\* C31 witness: the runnable raised in the third attempt, the provider
\* called directly gave the text, and the call returned success with it.
SucceededOnFallbackText ==
    /\ llm.pc = "done"
    /\ llm.result.success
    /\ llm.result.attempts = 3
    /\ llm.result.response_text = [attempt |-> 3, via |-> "fallback"]
    /\ llm.primary_failed
    /\ llm.fallback_calls = 1

\* =====================================================================
\* Properties of the settings and of the producer calls
\* =====================================================================

\* The mode a call of enqueue_document is made with: the argument, or the
\* configured default when the argument is missing or empty, or 'queue'
\* when there is no default either; case and surrounding blanks do not count.
GivenMode(m) ==
    LET given == IF m \in {NULL, ""}
                 THEN IF settings.ingest_default_mode \in {NULL, ""}
                      THEN "queue" ELSE settings.ingest_default_mode
                 ELSE m
    IN  CASE given \in {"queue", "Queue"} -> "queue"
          [] given \in {"immediate", " Immediate "} -> "immediate"
          [] OTHER -> given

NoSweepWithinTheLease ==
    /\ [](max_attempts >= MinAttempts /\ lock_timeout_seconds >= MinLockTimeout)
    /\ [][\A w \in Workers :
            SweepWrites(w)
            => \A j \in JobIds :
                 (jobs'[j] /= jobs[j] /\ jobs[j].started_at /= NoTime)
                 => now - jobs[j].started_at >= MinLockTimeout]_vars

\* =====================================================================
\* Properties of the retry budget and of the lease
\* =====================================================================

\* C34 as stated: the attempts of a job never exceed its max_attempts.
AttemptsWithinMaxAttempts ==
    \A j \in JobIds : jobs[j].attempts <= jobs[j].max_attempts

\* C35 as stated: a job is claimed at most max_attempts times between two
\* calls of enqueue_document or retry_document_job for its document.
ClaimsWithinMaxAttempts ==
    \A j \in JobIds : run[j].since <= jobs[j].max_attempts

\* C36 as stated: a success or failure report of a worker whose claim was
\* displaced (the job was swept, reset, claimed by another worker or
\* reported by one since) changes neither the status nor the worker_id,
\* attempts or error_msg of the job.
LateReportChangesNothing ==
    [][\A w \in Workers :
         (lease[w] = "revoked" /\ (process_job_ok(w) \/ ReportsFailure(w)))
         => LET j == held[w] IN
            /\ jobs'[j].status = jobs[j].status
            /\ jobs'[j].worker_id = jobs[j].worker_id
            /\ jobs'[j].attempts = jobs[j].attempts
            /\ jobs'[j].error_msg = jobs[j].error_msg]_vars

\* Worker w is between the claim of job j and its report, with the
\* document of the job at hand: ingest_document is running.
Ingesting(w, j) ==
    /\ pc[w] = "process"
    /\ held[w] = j
    /\ documents[jobs[j].document_id] /= "absent"

\* C37 as stated: as long as no lease has had the time to expire, no two
\* workers are ingesting the document of the same job.
OneIngestPerJobWithoutExpiry ==
    now < MinLockTimeout
    => \A j \in JobIds : \A w1, w2 \in Workers :
          (Ingesting(w1, j) /\ Ingesting(w2, j)) => w1 = w2

ParsedFromTextOfResult ==
    (llm.pc = "done" /\ ~llm.result.parsed_result.null)
    => llm.result.parsed_result.of = llm.result.response_text

\* C39 amended: the response_text of a result is the text of the last
\* attempt; the parsed_result of a success was parsed from it; the
\* parsed_result of a failure is the last value parse_fn returned, parsed
\* from the text of the last attempt when parse_fn returned in it, and
\* null or parsed from the text of an earlier attempt when it raised.
ParsedFromLastParsedText ==
    llm.pc = "done"
    => /\ llm.result.response_text.attempt = llm.result.attempts
       /\ llm.result.success
             => llm.result.parsed_result = [of |-> llm.result.response_text, null |-> FALSE]
       /\ (~llm.result.success /\ llm.result.attempts >= 1)
             => /\ llm.result.parsed_result = llm.last_parsed_result
                /\ llm.result.last_error /= MsgParse
                      => llm.result.parsed_result =
                            [of |-> llm.result.response_text, null |-> FALSE]
                /\ llm.result.last_error = MsgParse
                      => \/ llm.result.parsed_result.null
                         \/ llm.result.parsed_result.of.attempt
                               \in 1..(llm.result.attempts - 1)

\* C39 witness: a call with max_retries = 2 whose first text was parsed and
\* rejected and whose second text, obtained from the provider directly, did
\* not parse, returned the value of the first text with the second text.
ParsedValueOfEarlierText ==
    /\ llm.pc = "done"
    /\ ~llm.result.success
    /\ llm.max_retries = 2
    /\ llm.result.parsed_result.of.attempt = 1
    /\ llm.result.response_text = [attempt |-> 2, via |-> "fallback"]

\* C40 as stated: a failure result has a last_error and at least one
\* attempt, whatever max_retries is; a success result has no last_error
\* and the parsed value validate_fn accepted.
FailureResultTellsWhy ==
    llm.pc = "done"
    => /\ ~llm.result.success
             => llm.result.last_error /= NoMsg /\ llm.result.attempts >= 1
       /\ llm.result.success
             => /\ llm.result.last_error = NoMsg
                /\ ~llm.result.parsed_result.null
                /\ llm.result.parsed_result.of = llm.result.response_text
                /\ llm.result.attempts >= llm.accept_at

====
